---- MODULE Spec2Model ----
(***************************************************************************)
(* lipa-engine (src/lib.rs): a wasm-bindgen module exporting               *)
(*   greet(name: &str) -> String          and                              *)
(*   compute_physics_step(dt: f32) -> f32                                   *)
(* and importing the host function alert(s: &str).                         *)
(*                                                                         *)
(* Host text is a JavaScript string: a sequence of UTF-16 code units.      *)
(* A &str / String on the Rust side is a sequence of UTF-8 bytes.          *)
(* An f32 is the triple of its IEEE-754 binary32 fields.                   *)
(***************************************************************************)
EXTENDS Integers, Sequences, FiniteSets, TLC

VARIABLES
    last,      \* the call that returned last (operation, arguments, outcome)
    earlier,   \* one earlier call the host still remembers (its result too)
    heap,      \* linear memory: buffer id -> UTF-8 bytes of the live text buffers
    statics,   \* what the module keeps between calls (its static items)
    alerts     \* the texts the module has passed to the imported alert

vars == <<last, earlier, heap, statics, alerts>>

(***************************************************************************)
(* Bounds of the model.                                                    *)
(***************************************************************************)
MaxLen == 2        \* longest host text passed as name, in UTF-16 code units

(***************************************************************************)
(* Host texts.  The code units are U+00E9 (two UTF-8 bytes) and the two    *)
(* halves of U+1F980 (four bytes); a half on its own is an unpaired        *)
(* surrogate, i.e. not valid text.                                         *)
(***************************************************************************)
Units == {233, 55358, 56704}

RECURSIVE SeqsUpTo(_, _)
SeqsUpTo(S, n) ==
    IF n = 0 THEN {<< >>}
    ELSE LET shorter == SeqsUpTo(S, n - 1)
         IN  shorter \cup {Append(s, u) : s \in {t \in shorter : Len(t) = n - 1}, u \in S}

HostTexts == SeqsUpTo(Units, MaxLen)

IsHigh(u) == u >= 55296 /\ u <= 56319
IsLow(u) == u >= 56320 /\ u <= 57343

\* Well-formed UTF-16: every surrogate is half of a high/low pair.
WellFormed(units) ==
    \A i \in 1..Len(units) :
        /\ IsHigh(units[i]) => (i < Len(units) /\ IsLow(units[i + 1]))
        /\ IsLow(units[i]) => (i > 1 /\ IsHigh(units[i - 1]))

(***************************************************************************)
(* Text marshaling in, as #[wasm_bindgen] does it for a &str argument: the *)
(* host string is encoded to UTF-8 (TextEncoder), an unpaired surrogate    *)
(* becoming U+FFFD.                                                        *)
(***************************************************************************)
RECURSIVE Utf16ToScalars(_)
Utf16ToScalars(units) ==
    IF units = << >> THEN << >>
    ELSE IF Len(units) >= 2 /\ IsHigh(units[1]) /\ IsLow(units[2])
         THEN <<65536 + ((units[1] - 55296) * 1024) + (units[2] - 56320)>>
                  \o Utf16ToScalars(SubSeq(units, 3, Len(units)))
    ELSE IF IsHigh(units[1]) \/ IsLow(units[1])
         THEN <<65533>> \o Utf16ToScalars(Tail(units))
    ELSE <<units[1]>> \o Utf16ToScalars(Tail(units))

EncodeScalar(c) ==
    IF c < 128 THEN <<c>>
    ELSE IF c < 2048 THEN <<192 + (c \div 64), 128 + (c % 64)>>
    ELSE IF c < 65536 THEN <<224 + (c \div 4096), 128 + ((c \div 64) % 64), 128 + (c % 64)>>
    ELSE <<240 + (c \div 262144), 128 + ((c \div 4096) % 64),
           128 + ((c \div 64) % 64), 128 + (c % 64)>>

RECURSIVE EncodeUtf8(_)
EncodeUtf8(scalars) ==
    IF scalars = << >> THEN << >>
    ELSE EncodeScalar(Head(scalars)) \o EncodeUtf8(Tail(scalars))

passStringToWasm(units) == EncodeUtf8(Utf16ToScalars(units))

(***************************************************************************)
(* Text marshaling out, as #[wasm_bindgen] does it for a String result:    *)
(* the UTF-8 bytes are decoded to a host string (TextDecoder).             *)
(***************************************************************************)
\* Number of bytes of the UTF-8 sequence that starts with byte b (0: none).
SeqLenOf(b) ==
    IF b < 128 THEN 1
    ELSE IF b >= 194 /\ b <= 223 THEN 2
    ELSE IF b >= 224 /\ b <= 239 THEN 3
    ELSE IF b >= 240 /\ b <= 244 THEN 4
    ELSE 0

IsCont(b) == b >= 128 /\ b <= 191

DecodeAt(bytes, n) ==
    IF n = 1 THEN bytes[1]
    ELSE IF n = 2 THEN ((bytes[1] - 192) * 64) + (bytes[2] - 128)
    ELSE IF n = 3 THEN ((bytes[1] - 224) * 4096) + ((bytes[2] - 128) * 64) + (bytes[3] - 128)
    ELSE ((bytes[1] - 240) * 262144) + ((bytes[2] - 128) * 4096)
             + ((bytes[3] - 128) * 64) + (bytes[4] - 128)

\* A complete sequence of n bytes starts bytes: continuation bytes follow the
\* lead, and the scalar is neither overlong nor a surrogate nor above U+10FFFF.
ValidAt(bytes, n) ==
    /\ n >= 1
    /\ Len(bytes) >= n
    /\ \A i \in 2..n : IsCont(bytes[i])
    /\ LET c == DecodeAt(bytes, n)
       IN  /\ n = 3 => (c >= 2048 /\ ~(c >= 55296 /\ c <= 57343))
           /\ n = 4 => (c >= 65536 /\ c <= 1114111)

ScalarToUtf16(c) ==
    IF c < 65536 THEN <<c>>
    ELSE <<55296 + ((c - 65536) \div 1024), 56320 + ((c - 65536) % 1024)>>

\* A String is valid UTF-8, so the decoder meets complete sequences only;
\* a byte that starts none would decode to U+FFFD.
RECURSIVE getStringFromWasm(_)
getStringFromWasm(bytes) ==
    IF bytes = << >> THEN << >>
    ELSE IF bytes[1] < 128 THEN <<bytes[1]>> \o getStringFromWasm(Tail(bytes))
    ELSE LET n == SeqLenOf(bytes[1])
         IN  IF ValidAt(bytes, n)
             THEN ScalarToUtf16(DecodeAt(bytes, n))
                      \o getStringFromWasm(SubSeq(bytes, n + 1, Len(bytes)))
             ELSE <<65533>> \o getStringFromWasm(Tail(bytes))

(***************************************************************************)
(* greet: format!("Hello, {}! This message is computed in Rust <crab>",    *)
(* name).  The two pieces of the format string, as the UTF-8 bytes of the  *)
(* source literal; {} writes the bytes of name between them.               *)
(***************************************************************************)
FmtBefore == <<72, 101, 108, 108, 111, 44, 32>>

FmtAfter ==
    <<33, 32, 84, 104, 105, 115, 32, 109, 101, 115, 115, 97, 103, 101, 32,
      105, 115, 32, 99, 111, 109, 112, 117, 116, 101, 100, 32, 105, 110, 32,
      82, 117, 115, 116, 32, 240, 159, 166, 128>>

\* Variant: {:?} in place of {} (Debug formatting puts name in quotes).
greet_debug(name) == FmtBefore \o <<34>> \o name \o <<34>> \o FmtAfter

\* Variant: name copied through a three-byte buffer.
greet_truncated(name) ==
    FmtBefore \o SubSeq(name, 1, IF Len(name) < 3 THEN Len(name) ELSE 3) \o FmtAfter

greet(name) == FmtBefore \o name \o FmtAfter

(***************************************************************************)
(* IEEE-754 binary32.  A value is [s, e, m]: sign bit, biased exponent     *)
(* (8 bits) and fraction (23 bits).  All NaNs are one value, as the host   *)
(* sees them (a JavaScript number has a single NaN).                       *)
(***************************************************************************)
F32(s, e, m) == [s |-> s, e |-> e, m |-> m]

TwoTo12 == 4096
TwoTo23 == 8388608
TwoTo24 == 16777216

NaN == F32(0, 255, 4194304)
Inf(s) == F32(s, 255, 0)
Zero(s) == F32(s, 0, 0)

IsNaN(x) == x.e = 255 /\ x.m # 0
IsInf(x) == x.e = 255 /\ x.m = 0
IsZero(x) == x.e = 0 /\ x.m = 0
IsFinite(x) == x.e < 255

\* x = (-1)^s * Significand(x) * 2^(Exponent(x) - 150)
Significand(x) == IF x.e = 0 THEN x.m ELSE x.m + TwoTo23
Exponent(x) == IF x.e = 0 THEN 1 ELSE x.e

\* The 48-bit product of two 24-bit significands, as <<high, low>> 24-bit limbs.
MulWide(a, b) ==
    LET a1 == a \div TwoTo12
        a0 == a % TwoTo12
        b1 == b \div TwoTo12
        b0 == b % TwoTo12
        mid == (a1 * b0) + (a0 * b1)
        low == (a0 * b0) + ((mid % TwoTo12) * TwoTo12)
    IN  <<(a1 * b1) + (mid \div TwoTo12) + (low \div TwoTo24), low % TwoTo24>>

\* Bit i (0 = least significant) of the wide number p.
Bit(p, i) ==
    IF i < 24 THEN (p[2] \div (2^i)) % 2
    ELSE IF i < 48 THEN (p[1] \div (2^(i - 24))) % 2
    ELSE 0

\* Position of the most significant 1 bit of p # 0.
Msb(p) == CHOOSE n \in 0..47 : Bit(p, n) = 1 /\ \A j \in (n + 1)..47 : Bit(p, j) = 0

\* p shifted right by k bits, the bits shifted out dropped (k < 0 shifts left).
ShiftRight(p, k) ==
    IF k >= 48 THEN 0
    ELSE IF k >= 24 THEN p[1] \div (2^(k - 24))
    ELSE IF k >= 0 THEN (p[1] * (2^(24 - k))) + (p[2] \div (2^k))
    ELSE p[2] * (2^(0 - k))

\* Some bit of p below bit k is 1.
Sticky(p, k) == \E i \in 0..47 : i < k /\ Bit(p, i) = 1

\* p / 2^k rounded to the nearest integer, a tie to the even one.
RoundShift(p, k) ==
    LET q == ShiftRight(p, k)
    IN  IF k <= 0 THEN q
        ELSE IF Bit(p, k - 1) = 1 /\ (Sticky(p, k - 1) \/ (q % 2) = 1) THEN q + 1
        ELSE q

\* a * b in binary32, rounding to nearest, ties to even.
F32Mul(a, b) ==
    LET s == (a.s + b.s) % 2
    IN  IF IsNaN(a) \/ IsNaN(b) THEN NaN
        ELSE IF IsInf(a) \/ IsInf(b)
             THEN IF IsZero(a) \/ IsZero(b) THEN NaN ELSE Inf(s)
        ELSE IF IsZero(a) \/ IsZero(b) THEN Zero(s)
        ELSE LET p == MulWide(Significand(a), Significand(b))
                 \* the product is p * 2^(scale - 149), scale as follows
                 scale == Exponent(a) + Exponent(b) - 151
                 \* biased exponent the leading bit of p would get
                 lead == Msb(p) + scale - 22
                 \* bits to drop: down to 24 significant bits or, for a
                 \* subnormal result, down to the unit 2^-149
                 k == IF lead >= 1 THEN Msb(p) - 23 ELSE 0 - scale
                 q == RoundShift(p, k)
                 e == IF lead >= 1 THEN lead ELSE 0
                 \* the rounded significand may carry into the exponent
                 exp == IF e >= 1 THEN e - 1 + (q \div TwoTo23) ELSE q \div TwoTo23
             IN  IF exp >= 255 THEN Inf(s) ELSE F32(s, exp, q % TwoTo23)

(***************************************************************************)
(* compute_physics_step: dt * 9.81, where the literal 9.81 is an f32: the  *)
(* binary32 value nearest to 981/100, that is 10286531 * 2^-20.            *)
(***************************************************************************)
\* num/den (in [8, 16)) rounded to a binary32 value.
F32Literal(num, den) ==
    LET scaled == num * 1048576
        q == scaled \div den
        r == scaled % den
        sig == IF 2 * r > den \/ (2 * r = den /\ (q % 2) = 1) THEN q + 1 ELSE q
    IN  F32(0, 130, sig - TwoTo23)

Gravity == F32Literal(981, 100)

\* Variant: the constant written 9.8.
compute_physics_step_98(dt) == F32Mul(dt, F32Literal(98, 10))

\* Variant: the step keeps the dt of the previous step in a static and uses it.
compute_physics_step_stale(dt) ==
    F32Mul(IF last.op = "compute_physics_step" THEN last.dt ELSE dt, Gravity)

compute_physics_step(dt) == F32Mul(dt, Gravity)

(***************************************************************************)
(* What the two bodies do besides computing their result: nothing.  The    *)
(* crate has no static item, neither body calls alert, and neither has a   *)
(* panic, an early return or a Result: a call always returns its value.    *)
(***************************************************************************)
\* An item kept in a static: a reference to a buffer, or a scalar.
BufRef(b) == [buf |-> b, num |-> Zero(0)]
Scalar(x) == [buf |-> 0, num |-> x]

\* Variant: greet caches the pointer to name in a static.
greet_statics_cached(nameBuf, retBuf) == {BufRef(nameBuf)}

\* What greet leaves in the module's statics: nameBuf and retBuf are the
\* buffers of its argument and of its result.
greet_statics(nameBuf, retBuf) == {}

\* Variant: greet notifies the host of each name.
greet_alerts_notify(name) == <<name>>

\* The texts greet passes to alert, in order.
greet_alerts(name) == << >>

\* How a call of greet ends.
greet_outcome(name) == "ok"

\* Variant: the step accumulates elapsed time in a static.
compute_physics_step_statics_elapsed(dt) == {Scalar(dt)}

compute_physics_step_statics(dt) == {}

compute_physics_step_alerts(dt) == << >>

\* Variant: the step asserts that dt is finite.
compute_physics_step_outcome_asserting(dt) == IF IsFinite(dt) THEN "ok" ELSE "trap"

compute_physics_step_outcome(dt) == "ok"

(***************************************************************************)
(* Buffers.  A text lives in a buffer of linear memory, named by an id.    *)
(* An allocation takes the first id that no live buffer has; the String    *)
(* that format! builds is a new allocation.                                *)
(***************************************************************************)
Alloc(live) ==
    CHOOSE b \in 1..(Cardinality(live) + 1) :
        b \notin live /\ \A c \in 1..(b - 1) : c \in live

\* Variant: every result is written to one static buffer.
AllocString_static(live) == 1

AllocString(live) == Alloc(live)

(***************************************************************************)
(* The scalars the host passes as dt: 0.0, -0.0, 1.0, -1.0, 1/60, 0.1, the  *)
(* largest finite value, the largest value whose product with 9.81 is      *)
(* finite (0x7DD0C43C), the smallest subnormal, 2^-130, +infinity, NaN.     *)
(***************************************************************************)
DT ==
    { F32(0, 0, 0), F32(1, 0, 0), F32(0, 127, 0), F32(1, 127, 0),
      F32(0, 121, 559241), F32(0, 123, 5033165), F32(0, 254, 8388607),
      F32(0, 251, 5293116), F32(0, 0, 1), F32(0, 0, 524288), Inf(0), NaN }

(***************************************************************************)
(* The state machine: the host calls the exports one after the other.      *)
(***************************************************************************)
NoCall ==
    [op |-> "none", name |-> << >>, dt |-> Zero(0), outcome |-> "none",
     text |-> << >>, num |-> Zero(0), nameBuf |-> 0, retBuf |-> 0,
     nameIn |-> << >>, nameAfter |-> << >>, gap |-> FALSE]

Init ==
    /\ last = NoCall
    /\ earlier = NoCall
    /\ heap = [b \in {} |-> << >>]
    /\ statics = {}
    /\ alerts = << >>

\* The buffers the host holds: the result of the call it remembers.
Held(call) == IF call.op = "greet" /\ call.outcome = "ok" THEN {call.retBuf} ELSE {}

\* The host goes on remembering the earlier call (another call has now been
\* made since), or remembers the last call instead.
Remember(keep) == IF keep THEN [earlier EXCEPT !.gap = TRUE] ELSE last

\* The host calls greet(name).  The glue encodes name into a buffer, the body
\* runs and its String is decoded for the host; the argument's buffer is
\* released when the call returns.
Greet ==
    \E name \in HostTexts, keep \in BOOLEAN :
        LET remembered == Remember(keep)
            held == Held(remembered)
            nameBuf == Alloc(held)
            bytes == passStringToWasm(name)
            mem == [b \in held \cup {nameBuf} |-> IF b = nameBuf THEN bytes ELSE heap[b]]
            outcome == greet_outcome(mem[nameBuf])
            retBuf == IF outcome = "ok" THEN AllocString(held \cup {nameBuf}) ELSE 0
            after == [b \in DOMAIN mem \cup ({retBuf} \ {0}) |->
                         IF b = retBuf THEN greet(mem[nameBuf]) ELSE mem[b]]
        IN  /\ earlier' = remembered
            /\ heap' = [b \in held \cup ({retBuf} \ {0}) |-> after[b]]
            /\ statics' = statics \cup greet_statics(nameBuf, retBuf)
            /\ alerts' = alerts \o greet_alerts(mem[nameBuf])
            /\ last' = [NoCall EXCEPT
                   !.op = "greet", !.name = name, !.outcome = outcome,
                   !.text = IF outcome = "ok" THEN getStringFromWasm(after[retBuf])
                            ELSE << >>,
                   !.nameBuf = nameBuf, !.retBuf = retBuf,
                   !.nameIn = bytes, !.nameAfter = after[nameBuf]]

\* The host calls compute_physics_step(dt).
ComputePhysicsStep ==
    \E dt \in DT, keep \in BOOLEAN :
        LET remembered == Remember(keep)
            held == Held(remembered)
            outcome == compute_physics_step_outcome(dt)
        IN  /\ earlier' = remembered
            /\ heap' = [b \in held |-> heap[b]]
            /\ statics' = statics \cup compute_physics_step_statics(dt)
            /\ alerts' = alerts \o compute_physics_step_alerts(dt)
            /\ last' = [NoCall EXCEPT
                   !.op = "compute_physics_step", !.dt = dt, !.outcome = outcome,
                   !.num = IF outcome = "ok" THEN compute_physics_step(dt) ELSE Zero(0)]

Next == Greet \/ ComputePhysicsStep

Spec == Init /\ [][Next]_vars

(***************************************************************************)
(* The properties.                                                         *)
(***************************************************************************)
\* The host texts the properties speak of.
HelloText == <<72, 101, 108, 108, 111, 44, 32>>                \* "Hello, "

SuffixText ==                          \* "This message is computed in Rust <crab>"
    <<84, 104, 105, 115, 32, 109, 101, 115, 115, 97, 103, 101, 32, 105, 115,
      32, 99, 111, 109, 112, 117, 116, 101, 100, 32, 105, 110, 32, 82, 117,
      115, 116, 32, 55358, 56704>>

Greeting(name) == HelloText \o name \o <<33, 32>> \o SuffixText

IsGreet(call) == call.op = "greet"
IsStep(call) == call.op = "compute_physics_step"

\* C1: for every valid text name, the empty one included, greet(name) returns
\* exactly "Hello, " then name then "! This message is computed in Rust <crab>".
C1_GreetExact ==
    (IsGreet(last) /\ WellFormed(last.name))
        => (last.outcome = "ok" /\ last.text = Greeting(last.name))

C1_Witness ==
    /\ IsGreet(last)
    /\ last.name = << >>
    /\ last.text = HelloText \o <<33, 32>> \o SuffixText

\* C2: when name is not valid text, the greet call fails with EncodingError
\* and returns no greeting.
C2_EncodingError ==
    (IsGreet(last) /\ ~WellFormed(last.name))
        => (last.outcome = "EncodingError" /\ last.text = << >> /\ last.retBuf = 0)

\* C3: for every finite dt, compute_physics_step(dt) is the binary32 product
\* dt * 9.81 bit for bit; 0.0 gives 0.0 and 1.0 gives 9.81.  Products maps
\* each finite dt of the model to the bits of its IEEE-754 binary32 product
\* with 0x411CF5C3 (9.81f32).
Products ==
    { <<F32(0, 0, 0), F32(0, 0, 0)>>,
      <<F32(1, 0, 0), F32(1, 0, 0)>>,
      <<F32(0, 127, 0), F32(0, 130, 1897923)>>,
      <<F32(1, 127, 0), F32(1, 130, 1897923)>>,
      <<F32(0, 121, 559241), F32(0, 124, 2583692)>>,
      <<F32(0, 123, 5033165), F32(0, 126, 8069842)>>,
      <<F32(0, 254, 8388607), F32(0, 255, 0)>>,
      <<F32(0, 251, 5293116), F32(0, 254, 8388607)>>,
      <<F32(0, 0, 1), F32(0, 0, 10)>>,
      <<F32(0, 0, 524288), F32(0, 0, 5143266)>> }

C3_PhysicsExact ==
    (IsStep(last) /\ IsFinite(last.dt))
        => /\ last.outcome = "ok"
           /\ <<last.dt, last.num>> \in Products

C3_Witness ==
    /\ IsStep(last)
    /\ last.dt = F32(0, 127, 0)
    /\ last.num = F32(0, 130, 1897923)

\* C4: the module is stateless between calls: after any calls its statics are
\* as before the first call, and it owns no buffer (every live buffer is a
\* result the host holds).
C4_Stateless ==
    /\ statics = {}
    /\ DOMAIN heap \subseteq Held(earlier) \cup Held(last)

C4_Witness ==
    /\ IsGreet(last)
    /\ earlier.op # "none"
    /\ earlier.gap
    /\ statics = {}

\* C5: two calls of compute_physics_step with the same dt return the same
\* result, whatever calls were made before or between them.
C5_Deterministic ==
    (IsStep(last) /\ IsStep(earlier) /\ last.dt = earlier.dt)
        => (last.outcome = earlier.outcome /\ last.num = earlier.num)

C5_Witness ==
    /\ IsStep(last)
    /\ IsStep(earlier)
    /\ earlier.gap
    /\ last.dt = earlier.dt
    /\ last.dt = F32(0, 121, 559241)

\* text contains part as a contiguous run of code units.
Contains(text, part) ==
    \E i \in 1..(Len(text) - Len(part) + 1) :
        SubSeq(text, i, i + Len(part) - 1) = part

EndsWith(text, part) ==
    /\ Len(text) >= Len(part)
    /\ SubSeq(text, Len(text) - Len(part) + 1, Len(text)) = part

\* C6: for every valid text name, greet(name) contains name unchanged as a
\* contiguous run (multi-byte characters included), is not truncated, and ends
\* with "This message is computed in Rust <crab>".
C6_Reflects ==
    (IsGreet(last) /\ WellFormed(last.name))
        => /\ last.outcome = "ok"
           /\ Contains(last.text, last.name)
           /\ EndsWith(last.text, SuffixText)
           /\ Len(last.text) >= Len(last.name) + Len(SuffixText)

C6_Witness ==
    /\ IsGreet(last)
    /\ last.name = <<55358, 56704>>
    /\ Contains(last.text, <<55358, 56704>>)

\* The buffer of call's result is still there and holds what was returned.
Intact(call) ==
    /\ call.retBuf \in DOMAIN heap
    /\ getStringFromWasm(heap[call.retBuf]) = call.text

\* C7: the text greet returns is a new buffer, not that of name nor that of an
\* earlier result; once handed to the host the module neither writes to it
\* nor frees it nor keeps a reference to it, in this call or a later one.
C7_ResultOwnedByHost ==
    /\ (IsGreet(last) /\ last.outcome = "ok")
           => (last.retBuf # last.nameBuf /\ Intact(last))
    /\ (IsGreet(earlier) /\ earlier.outcome = "ok")
           => (Intact(earlier) /\ (IsGreet(last) => last.retBuf # earlier.retBuf))
    /\ \A x \in statics : x.buf \notin Held(last) \cup Held(earlier)

C7_Witness ==
    /\ IsGreet(last)
    /\ IsGreet(earlier)
    /\ earlier.gap
    /\ last.name # earlier.name
    /\ Intact(earlier)

\* C8: greet only borrows name: the call leaves the content of name as it
\* was, and after it the module holds no reference to name.
C8_BorrowsName ==
    IsGreet(last)
        => /\ last.nameAfter = last.nameIn
           /\ \A x \in statics : x.buf # last.nameBuf

C8_Witness ==
    /\ IsGreet(last)
    /\ last.name = <<233>>
    /\ last.nameAfter = <<195, 169>>

\* C9: every call completes: compute_physics_step returns a scalar for any
\* dt, greet returns a greeting or fails with EncodingError, and no call is
\* left pending.
C9_Total ==
    /\ IsStep(last) => last.outcome = "ok"
    /\ IsGreet(last)
           => \/ last.outcome = "ok" /\ last.retBuf # 0
              \/ last.outcome = "EncodingError"

C9_Witness ==
    /\ IsStep(last)
    /\ IsNaN(last.dt)
    /\ IsGreet(earlier)
    /\ last.outcome = "ok"

\* C10: neither export calls the imported alert: the number of host
\* notifications stays zero over any calls.
C10_NoAlert == Len(alerts) = 0

C10_Witness ==
    /\ IsGreet(last)
    /\ IsStep(earlier)
    /\ earlier.gap
    /\ Len(alerts) = 0

====
